---- MODULE Spec2Model ----
(***************************************************************************)
(* exact_avg: a user-defined aggregate computing the exact mean of a       *)
(* NUMERIC(p_in, s_in) column.  The factory plans the shapes of the        *)
(* intermediate sum and of the result; every partition owns one            *)
(* intermediate state (sum, cnt, p_in, s_in) driven through                *)
(* initAggregate, aggregate, combine and terminate.                        *)
(*                                                                         *)
(* Numbers.  A NUMERIC(p, s) holds an unscaled integer u with |u| < 10^p,  *)
(* its value being u / 10^s.  Precisions go up to 1024 digits, far beyond  *)
(* the integers of the model checker, so every unscaled integer of one     *)
(* column is written m * 10^unit: the mantissa m is a small integer and    *)
(* unit is fixed per column (unit = 0 gives ordinary small numbers, a      *)
(* large unit gives numbers that fill the column's precision).  Sums of    *)
(* such numbers are again of this form, exactly.                           *)
(***************************************************************************)
EXTENDS Integers, Sequences, FiniteSets, TLC

\* src/exact_avg.cpp:8
MAX_NUMERIC_PRECISION == 1024

\* Bounds of the model.
NumInst == 3        \* partitions (intermediate states) of the group
MaxRows == 2        \* rows fed to the group in one behaviour
MaxBatch == 2       \* rows of one block handed to aggregate()
MaxShift == 5       \* powers of ten the model multiplies out explicitly

VARIABLES
    col,      \* the input column: [p, s] its declared NUMERIC type, unit the magnitude of its values
    status,   \* per instance: "unused", "active", "consumed" (combined into another), "terminated"
    aggs,     \* per instance: the intermediate state [sum, cnt, p_in, s_in]
    rows,     \* per instance: the bag of rows aggregated into it, directly or through combine (history)
    result,   \* the outcome of terminate(), NoResult before
    plan      \* the outcome of a factory call (planner specification only)

vars == <<col, status, aggs, rows, result, plan>>

Inst == 1..NumInst

-----------------------------------------------------------------------------
(* Helpers *)

Abs(x) == IF x < 0 THEN -x ELSE x

RECURSIVE Pow10(_)
Pow10(k) == IF k <= 0 THEN 1 ELSE 10 * Pow10(k - 1)

\* The digit-counting loop of terminate(): tmp /= 10; digitsN++ while tmp > 0.
RECURSIVE DigitLoop(_, _)
DigitLoop(tmp, digitsN) ==
    IF tmp > 0 THEN DigitLoop(tmp \div 10, digitsN + 1) ELSE digitsN

\* Decimal digits of the unscaled integer m * 10^u (0 has none).
NumDigits(m, u) == IF m = 0 THEN 0 ELSE DigitLoop(Abs(m), 0) + u

\* m * 10^u is a value of a NUMERIC of precision p.
Fits(m, u, p) == NumDigits(m, u) <= p

-----------------------------------------------------------------------------
(* ExactAvgFactory: the planner *)

\* int32 extra_digits_for_rows = 19;   (src/exact_avg.cpp:374)
extra_digits_for_rows == 19

\* The answer of a factory call on an input the factory rejects (vt_report_error).
PlanError == [ok |-> FALSE, p |-> 0, s |-> 0]

\* Fault variant: p_sum is not capped at the maximum precision.
getIntermediateTypes_uncapped(p_in, s_in) ==
    IF p_in <= 0 \/ p_in > MAX_NUMERIC_PRECISION
    THEN PlanError
    ELSE LET p_sum == p_in + extra_digits_for_rows
             s1 == IF s_in > p_sum THEN p_sum ELSE s_in
             s_sum == IF s1 < 0 THEN 0 ELSE s1
         IN  [ok |-> TRUE, p |-> p_sum, s |-> s_sum]

\* Fault variant: one digit too few is reserved for the row count.
getIntermediateTypes_fewerDigits(p_in, s_in) ==
    IF p_in <= 0 \/ p_in > MAX_NUMERIC_PRECISION
    THEN PlanError
    ELSE LET p0 == p_in + extra_digits_for_rows - 1
             p_sum == IF p0 > MAX_NUMERIC_PRECISION THEN MAX_NUMERIC_PRECISION ELSE p0
             s1 == IF s_in > p_sum THEN p_sum ELSE s_in
             s_sum == IF s1 < 0 THEN 0 ELSE s1
         IN  [ok |-> TRUE, p |-> p_sum, s |-> s_sum]

\* Fault variant: the sum is planned at the input's precision, without the
\* digits for the row count.
getIntermediateTypes_noExtraDigits(p_in, s_in) ==
    IF p_in <= 0 \/ p_in > MAX_NUMERIC_PRECISION
    THEN PlanError
    ELSE LET p_sum == p_in
             s0 == s_in
             s1 == IF s0 > p_sum THEN p_sum ELSE s0
             s_sum == IF s1 < 0 THEN 0 ELSE s1
         IN  [ok |-> TRUE, p |-> p_sum, s |-> s_sum]

\* getIntermediateTypes: the shape NUMERIC(p_sum, s_sum) of the intermediate sum.
getIntermediateTypes(p_in, s_in) ==
    IF p_in <= 0 \/ p_in > MAX_NUMERIC_PRECISION
    THEN PlanError
    ELSE LET p0 == p_in + extra_digits_for_rows
             p_sum == IF p0 > MAX_NUMERIC_PRECISION THEN MAX_NUMERIC_PRECISION ELSE p0
             s0 == s_in
             s1 == IF s0 > p_sum THEN p_sum ELSE s0
             s_sum == IF s1 < 0 THEN 0 ELSE s1
         IN  [ok |-> TRUE, p |-> p_sum, s |-> s_sum]

\* Fault variant: the test "if (s_out > p_out)" is missing.
getReturnType_scaleUncapped(p_in, s_in) ==
    IF p_in <= 0 \/ p_in > MAX_NUMERIC_PRECISION
    THEN PlanError
    ELSE LET p0 == p_in + 5
             p_out == IF p0 > MAX_NUMERIC_PRECISION THEN MAX_NUMERIC_PRECISION ELSE p0
             s0 == s_in + 5
             s_out == IF s0 < 0 THEN 0 ELSE s0
         IN  [ok |-> TRUE, p |-> p_out, s |-> s_out]

\* Fault variant: when p_in + 5 passes the maximum, p_out falls back to p_in.
getReturnType_fallsBack(p_in, s_in) ==
    IF p_in <= 0 \/ p_in > MAX_NUMERIC_PRECISION
    THEN PlanError
    ELSE LET p0 == p_in + 5
             p_out == IF p0 > MAX_NUMERIC_PRECISION THEN p_in ELSE p0
             s0 == s_in + 5
             s1 == IF s0 > p_out THEN p_out ELSE s0
             s_out == IF s1 < 0 THEN 0 ELSE s1
         IN  [ok |-> TRUE, p |-> p_out, s |-> s_out]

\* getReturnType: the shape NUMERIC(p_out, s_out) of the result.
getReturnType(p_in, s_in) ==
    IF p_in <= 0 \/ p_in > MAX_NUMERIC_PRECISION
    THEN PlanError
    ELSE LET p0 == p_in + 5
             p_out == IF p0 > MAX_NUMERIC_PRECISION THEN MAX_NUMERIC_PRECISION ELSE p0
             s0 == s_in + 5
             s1 == IF s0 > p_out THEN p_out ELSE s0
             s_out == IF s1 < 0 THEN 0 ELSE s1
         IN  [ok |-> TRUE, p |-> p_out, s |-> s_out]

-----------------------------------------------------------------------------
(* Rows and the host's decimal primitives *)

NullRow == [isNull |-> TRUE, val |-> 0]
Row(m) == [isNull |-> FALSE, val |-> m]

\* Mantissas of the non-null input values of the model.
Mantissas == {-9, 8, 9}

AllRows == {NullRow} \cup {Row(m) : m \in Mantissas}

\* The rows a column of type NUMERIC(c.p, c.s) with magnitude c.unit can hold.
ColumnRows(c) == {r \in AllRows : r.isNull \/ Fits(r.val, c.unit, c.p)}

\* Rounding rules the host's division may apply at the last digit of the result.
Roundings == {"truncate", "half_up", "half_even"}

\* num / den (den > 0) rounded to an integer under rounding rule mode.
RoundDiv(num, den, mode) ==
    LET q == Abs(num) \div den
        r == Abs(num) % den
        up == CASE mode = "truncate" -> FALSE
                [] mode = "half_up" -> r >= den - r
                [] OTHER -> (r > den - r) \/ (r = den - r /\ q % 2 = 1)
        a == IF up THEN q + 1 ELSE q
    IN  IF num < 0 THEN -a ELSE a

-----------------------------------------------------------------------------
(* ExactAvg: the aggregate.  An intermediate state is                     *)
(* [sum, cnt, p_in, s_in]: sum is the mantissa of the NUMERIC(p_sum,      *)
(* s_sum) running total, cnt, p_in and s_in are 64-bit integers (vint).    *)
(* The model's counts and mantissas stay far below 2^63 and below the      *)
(* word capacity of the sum, where the additions below are exact.          *)

\* initAggregate: sum.setZero(); cnt = 0; p_in_stored = 0; s_in_stored = 0.
initAggregate == [sum |-> 0, cnt |-> 0, p_in |-> 0, s_in |-> 0]

\* Fault variant: cnt++ outside the null test, so null rows are counted.
RECURSIVE AddRows_countsNulls(_, _)
AddRows_countsNulls(a, batch) ==
    IF batch = << >> THEN a
    ELSE LET input == Head(batch)
             a1 == IF ~input.isNull THEN [a EXCEPT !.sum = a.sum + input.val] ELSE a
         IN  AddRows_countsNulls([a1 EXCEPT !.cnt = a1.cnt + 1], Tail(batch))

\* Fault variant: the row is copied into sum where it should be accumulated.
RECURSIVE AddRows_overwrites(_, _)
AddRows_overwrites(a, batch) ==
    IF batch = << >> THEN a
    ELSE LET input == Head(batch)
             a1 == IF ~input.isNull
                   THEN [a EXCEPT !.sum = input.val, !.cnt = a.cnt + 1]
                   ELSE a
         IN  AddRows_overwrites(a1, Tail(batch))

\* The do-while loop of aggregate(): a non-null row adds its value and counts.
RECURSIVE AddRows(_, _)
AddRows(a, batch) ==
    IF batch = << >> THEN a
    ELSE LET input == Head(batch)
             a1 == IF ~input.isNull
                   THEN [a EXCEPT !.sum = a.sum + input.val, !.cnt = a.cnt + 1]
                   ELSE a
         IN  AddRows(a1, Tail(batch))

\* Fault variant: the call that records the shape returns before the loop.
aggregate_skipsFirstBlock(a, p_in, s_in, batch) ==
    IF a.p_in = 0
    THEN IF p_in <= 0 \/ p_in > MAX_NUMERIC_PRECISION
         THEN [ok |-> FALSE, st |-> a]
         ELSE [ok |-> TRUE, st |-> [a EXCEPT !.p_in = p_in, !.s_in = s_in]]
    ELSE [ok |-> TRUE, st |-> AddRows(a, batch)]

\* Fault variant: the validated shape is never stored in the state.
aggregate_neverRecords(a, p_in, s_in, batch) ==
    IF a.p_in = 0
    THEN IF p_in <= 0 \/ p_in > MAX_NUMERIC_PRECISION
         THEN [ok |-> FALSE, st |-> a]
         ELSE [ok |-> TRUE, st |-> AddRows(a, batch)]
    ELSE [ok |-> TRUE, st |-> AddRows(a, batch)]

\* Fault variant: the shape is recorded only by a call whose block holds a value.
aggregate_recordsWithFirstValue(a, p_in, s_in, batch) ==
    IF a.p_in = 0
    THEN IF p_in <= 0 \/ p_in > MAX_NUMERIC_PRECISION
         THEN [ok |-> FALSE, st |-> a]
         ELSE [ok |-> TRUE,
               st |-> IF \E k \in DOMAIN batch : ~batch[k].isNull
                      THEN AddRows([a EXCEPT !.p_in = p_in, !.s_in = s_in], batch)
                      ELSE a]
    ELSE [ok |-> TRUE, st |-> AddRows(a, batch)]

\* aggregate() on state a, for a block of rows of declared type NUMERIC(p_in, s_in).
\* ok = FALSE: the call raised "invalid input NUMERIC precision" and a is untouched.
\* (The argument is NUMERIC by the prototype, so the isNumeric() test passes.)
aggregate(a, p_in, s_in, batch) ==
    IF a.p_in = 0
    THEN IF p_in <= 0 \/ p_in > MAX_NUMERIC_PRECISION
         THEN [ok |-> FALSE, st |-> a]
         ELSE [ok |-> TRUE,
               st |-> AddRows([a EXCEPT !.p_in = p_in, !.s_in = s_in], batch)]
    ELSE [ok |-> TRUE, st |-> AddRows(a, batch)]

\* Fault variant: myCnt++ where myCnt += otherCnt is meant.
combineOne_countsPartials(my, other) ==
    [sum  |-> my.sum + other.sum,
     cnt  |-> my.cnt + 1,
     p_in |-> IF other.p_in > my.p_in THEN other.p_in ELSE my.p_in,
     s_in |-> IF other.s_in > my.s_in THEN other.s_in ELSE my.s_in]

\* Fault variant: the recorded input shape of the other state is ignored.
combineOne_keepsShape(my, other) ==
    [sum  |-> my.sum + other.sum,
     cnt  |-> my.cnt + other.cnt,
     p_in |-> my.p_in,
     s_in |-> my.s_in]

\* Fault variant: the recorded shape of the other state replaces mine.
combineOne_takesOther(my, other) ==
    [sum  |-> my.sum + other.sum,
     cnt  |-> my.cnt + other.cnt,
     p_in |-> other.p_in,
     s_in |-> other.s_in]

\* Fault variant: the other sum is copied into mine where it should be accumulated.
combineOne_copiesSum(my, other) ==
    [sum  |-> other.sum,
     cnt  |-> my.cnt + other.cnt,
     p_in |-> IF other.p_in > my.p_in THEN other.p_in ELSE my.p_in,
     s_in |-> IF other.s_in > my.s_in THEN other.s_in ELSE my.s_in]

\* Fault variant: the smaller recorded shape wins.
combineOne_minShape(my, other) ==
    [sum  |-> my.sum + other.sum,
     cnt  |-> my.cnt + other.cnt,
     p_in |-> IF other.p_in < my.p_in THEN other.p_in ELSE my.p_in,
     s_in |-> IF other.s_in < my.s_in THEN other.s_in ELSE my.s_in]

\* One turn of the loop of combine(): another partial state is folded into mine.
combineOne(my, other) ==
    [sum  |-> my.sum + other.sum,
     cnt  |-> my.cnt + other.cnt,
     p_in |-> IF other.p_in > my.p_in THEN other.p_in ELSE my.p_in,
     s_in |-> IF other.s_in > my.s_in THEN other.s_in ELSE my.s_in]

\* combine(): the loop over the block of other partial states.
RECURSIVE combine(_, _)
combine(my, others) ==
    IF others = << >> THEN my
    ELSE combine(combineOne(my, Head(others)), Tail(others))

\* What terminate() ends with.  kind is "null", "numeric" (the result is
\* q * 10^e unscaled, at the scale of the output type; exact tells that the
\* division left no remainder), "PrecisionExceeded", "CorruptState" (why names
\* the failed sanity check) or "OutOfRange" (an operand or the quotient is no
\* value of its NUMERIC type: the host's primitive raises, which the handler of
\* terminate() reports, or leaves a value outside the declared type).
Outcome(kind, why, q, e, exact, p_needed, digitsN) ==
    [kind |-> kind, why |-> why, q |-> q, e |-> e, exact |-> exact,
     p_needed |-> p_needed, digitsN |-> digitsN]

Failure(kind, why, p_needed, digitsN) == Outcome(kind, why, 0, 0, FALSE, p_needed, digitsN)

\* out.div(&sum, &cntNumeric): sum = sumM * 10^unit unscaled at scale sumType.s,
\* cntNumeric = cnt at the shape of the sum, out at the shape outType.  The
\* unscaled quotient is sumM * 10^shift / cnt with shift = unit + outType.s -
\* sumType.s, rounded by the host's rule.  When shift > MaxShift and the
\* division leaves a remainder the digits of the quotient below 10^e are not
\* represented (exact = FALSE, e > 0).
div(sumM, unit, sumType, cnt, outType, mode) ==
    LET shift == unit + outType.s - sumType.s
        j == IF shift > MaxShift THEN MaxShift ELSE IF shift < 0 THEN 0 ELSE shift
        num == sumM * Pow10(j)
        den == cnt * Pow10(IF shift < 0 THEN -shift ELSE 0)
        exact == num % den = 0
        q == IF exact THEN num \div den ELSE RoundDiv(num, den, mode)
        e == IF shift < 0 THEN 0 ELSE shift - j
    IN  IF ~Fits(cnt, sumType.s, sumType.p) THEN Failure("OutOfRange", "count", 0, 0)
        ELSE IF ~Fits(q, e, outType.p) THEN Failure("OutOfRange", "quotient", 0, 0)
        ELSE Outcome("numeric", "", q, e, exact, 0, 0)

\* Fault variant: the emptiness test reads the shape sentinel, not the count.
groupIsEmpty_byShape(a) == a.p_in = 0

\* if (rowCount == 0): the group has no non-null row.
groupIsEmpty(a) == a.cnt = 0

\* Fault variants of the ceiling test: one digit too lenient, one too strict.
exceedsMaximum_lenient(p_needed) == p_needed > MAX_NUMERIC_PRECISION + 1
exceedsMaximum_strict(p_needed) == p_needed >= MAX_NUMERIC_PRECISION

\* if (p_needed > MAX_NUMERIC_PRECISION): no exact sum can be represented.
exceedsMaximum(p_needed) == p_needed > MAX_NUMERIC_PRECISION

\* terminate() on state a.  Every vt_report_error ends the call with a failure;
\* the handler around the body re-reports it and returns nothing either.
terminate(a, unit, sumType, outType, mode) ==
    IF groupIsEmpty(a) THEN Outcome("null", "", 0, 0, FALSE, 0, 0)
    ELSE IF a.s_in < 0 THEN Failure("CorruptState", "scale", 0, 0)
    ELSE IF a.p_in <= 0 \/ a.p_in > MAX_NUMERIC_PRECISION
         THEN Failure("CorruptState", "precision", 0, 0)
    ELSE IF a.cnt < 0 THEN Failure("CorruptState", "count", 0, 0)
    ELSE LET digitsN == DigitLoop(a.cnt, 0)
             p_needed == a.p_in + digitsN
         IN  IF digitsN = 0 THEN Failure("CorruptState", "digits", 0, 0)
             ELSE IF exceedsMaximum(p_needed)
                  THEN Failure("PrecisionExceeded", "", p_needed, digitsN)
             ELSE div(a.sum, unit, sumType, a.cnt, outType, mode)

-----------------------------------------------------------------------------
(* The host: one group of one query *)

\* Bags of rows (history of what a state has absorbed).
EmptyBag == [r \in AllRows |-> 0]

RECURSIVE BagAddSeq(_, _)
BagAddSeq(b, batch) ==
    IF batch = << >> THEN b
    ELSE BagAddSeq([b EXCEPT ![Head(batch)] = @ + 1], Tail(batch))

BagUnion(b1, b2) == [r \in AllRows |-> b1[r] + b2[r]]

RECURSIVE BagUnionSeq(_, _)
BagUnionSeq(b, bs) ==
    IF bs = << >> THEN b ELSE BagUnionSeq(BagUnion(b, Head(bs)), Tail(bs))

RECURSIVE BagFold(_, _, _)
BagFold(b, S, weigh) ==
    IF S = {} THEN 0
    ELSE LET r == CHOOSE x \in S : TRUE
         IN  (IF weigh THEN b[r] * r.val ELSE b[r]) + BagFold(b, S \ {r}, weigh)

BagSize(b) == BagFold(b, AllRows, FALSE)
BagNonNull(b) == BagFold(b, AllRows \ {NullRow}, FALSE)
BagTotal(b) == BagFold(b, AllRows \ {NullRow}, TRUE)

\* Non-empty blocks of at most MaxBatch rows of column c, and of at most room rows.
Batches(c, room) ==
    UNION {[1..n -> ColumnRows(c)] : n \in 1..(IF room < MaxBatch THEN room ELSE MaxBatch)}

\* Non-empty blocks of distinct instances out of S.
Blocks(S) == {o \in UNION {[1..n -> S] : n \in 1..NumInst} :
                 \A x, y \in DOMAIN o : x # y => o[x] # o[y]}

\* The input columns of the model: type NUMERIC(p, s), values m * 10^unit.
Columns ==
    { [p |-> 75,   s |-> 2,    unit |-> 0],
      [p |-> 1020, s |-> 0,    unit |-> 0],
      [p |-> 1020, s |-> 0,    unit |-> 1019],
      [p |-> 1023, s |-> 1023, unit |-> 0],
      [p |-> 1024, s |-> 0,    unit |-> 1023] }

\* The shapes the factory planned for column c.
SumType(c) == getIntermediateTypes(c.p, c.s)
OutType(c) == getReturnType(c.p, c.s)

NoResult == Outcome("none", "", 0, 0, FALSE, 0, 0)
NoPlan == [call |-> "none", ok |-> FALSE, p |-> 0, s |-> 0]

\* Rows fed to the group so far: those held by the states not yet combined away.
RECURSIVE RowsHeld(_)
RowsHeld(S) ==
    IF S = {} THEN 0
    ELSE LET i == CHOOSE x \in S : TRUE
         IN  (IF status[i] \in {"active", "terminated"} THEN BagSize(rows[i]) ELSE 0)
             + RowsHeld(S \ {i})

RowsFed == RowsHeld(Inst)

Init ==
    /\ col \in Columns
    /\ status = [i \in Inst |-> "unused"]
    /\ aggs = [i \in Inst |-> initAggregate]
    /\ rows = [i \in Inst |-> EmptyBag]
    /\ result = NoResult
    /\ plan = NoPlan

\* The host creates the state of the next partition and initialises it.
InitAggregate(i) ==
    /\ result = NoResult
    /\ status[i] = "unused"
    /\ \A j \in Inst : j < i => status[j] # "unused"
    /\ status' = [status EXCEPT ![i] = "active"]
    /\ aggs' = [aggs EXCEPT ![i] = initAggregate]
    /\ rows' = [rows EXCEPT ![i] = EmptyBag]
    /\ UNCHANGED <<col, result, plan>>

\* Fault variant: the running state is shared by the instances (a static
\* accumulator), so a block handed to one partition lands in every live state.
Aggregate_sharedState(i, batch) ==
    /\ result = NoResult
    /\ status[i] = "active"
    /\ aggs' = [j \in Inst |-> IF status[j] = "active"
                               THEN aggregate(aggs[j], col.p, col.s, batch).st
                               ELSE aggs[j]]
    /\ rows' = [rows EXCEPT ![i] = BagAddSeq(@, batch)]
    /\ UNCHANGED <<col, status, result, plan>>

\* The host hands a block of rows of the column to the state of a partition.
\* A raise aborts the query (result records it) and leaves the state as it was.
Aggregate(i, batch) ==
    /\ result = NoResult
    /\ status[i] = "active"
    /\ LET r == aggregate(aggs[i], col.p, col.s, batch)
       IN  IF r.ok
           THEN /\ aggs' = [aggs EXCEPT ![i] = r.st]
                /\ rows' = [rows EXCEPT ![i] = BagAddSeq(@, batch)]
                /\ result' = result
           ELSE /\ result' = Failure("InvalidInputShape", "precision", 0, 0)
                /\ UNCHANGED <<aggs, rows>>
    /\ UNCHANGED <<col, status, plan>>

\* The host folds a block of other partial states into state i and drops them.
Combine(i, others) ==
    /\ result = NoResult
    /\ status[i] = "active"
    /\ aggs' = [aggs EXCEPT ![i] = combine(@, [k \in DOMAIN others |-> aggs[others[k]]])]
    /\ rows' = [j \in Inst |->
                   IF j = i THEN BagUnionSeq(rows[i], [k \in DOMAIN others |-> rows[others[k]]])
                   ELSE IF \E k \in DOMAIN others : others[k] = j THEN EmptyBag
                   ELSE rows[j]]
    /\ status' = [j \in Inst |-> IF \E k \in DOMAIN others : others[k] = j
                                 THEN "consumed" ELSE status[j]]
    /\ UNCHANGED <<col, result, plan>>

\* Fault variant: terminate() clears the state once the result is written.
Terminate_resetsState(i, mode) ==
    /\ result = NoResult
    /\ status[i] = "active"
    /\ \A j \in Inst \ {i} : status[j] # "active"
    /\ result' = terminate(aggs[i], col.unit, SumType(col), OutType(col), mode)
    /\ status' = [status EXCEPT ![i] = "terminated"]
    /\ aggs' = [aggs EXCEPT ![i] = initAggregate]
    /\ UNCHANGED <<col, rows, plan>>

\* The host finalises the fully combined state: no other state is still live.
Terminate(i, mode) ==
    /\ result = NoResult
    /\ status[i] = "active"
    /\ \A j \in Inst \ {i} : status[j] # "active"
    /\ result' = terminate(aggs[i], col.unit, SumType(col), OutType(col), mode)
    /\ status' = [status EXCEPT ![i] = "terminated"]
    /\ UNCHANGED <<col, aggs, rows, plan>>

Next ==
    \/ \E i \in Inst : InitAggregate(i)
    \/ \E i \in Inst : \E batch \in Batches(col, MaxRows - RowsFed) : Aggregate(i, batch)
    \/ \E i \in Inst :
          \E others \in Blocks({j \in Inst \ {i} : status[j] = "active"}) : Combine(i, others)
    \/ \E i \in Inst : \E mode \in Roundings : Terminate(i, mode)

Spec == Init /\ [][Next]_vars

-----------------------------------------------------------------------------
(* The same group under a host that does not keep to the order of the      *)
(* calls: it may finalise a partial state early and go on calling          *)
(* initAggregate, aggregate, combine and terminate on a state terminate()  *)
(* has already run on.  The class keeps no phase: each call works on the   *)
(* state as it finds it.                                                    *)

\* terminate() on a partial state, while other partial states are still live.
TerminateEarly(i, mode) ==
    /\ result = NoResult
    /\ status[i] = "active"
    /\ \E j \in Inst \ {i} : status[j] = "active"
    /\ result' = terminate(aggs[i], col.unit, SumType(col), OutType(col), mode)
    /\ status' = [status EXCEPT ![i] = "terminated"]
    /\ UNCHANGED <<col, aggs, rows, plan>>

\* initAggregate() on a state terminate() has run on.
InitAggregateAfter(i) ==
    /\ status[i] = "terminated"
    /\ aggs[i] # initAggregate
    /\ aggs' = [aggs EXCEPT ![i] = initAggregate]
    /\ rows' = [rows EXCEPT ![i] = EmptyBag]
    /\ UNCHANGED <<col, status, result, plan>>

\* aggregate() on a state terminate() has run on.
AggregateAfter(i, batch) ==
    /\ status[i] = "terminated"
    /\ LET r == aggregate(aggs[i], col.p, col.s, batch)
       IN  IF r.ok
           THEN /\ aggs' = [aggs EXCEPT ![i] = r.st]
                /\ rows' = [rows EXCEPT ![i] = BagAddSeq(@, batch)]
                /\ result' = result
           ELSE /\ result' = Failure("InvalidInputShape", "precision", 0, 0)
                /\ UNCHANGED <<aggs, rows>>
    /\ UNCHANGED <<col, status, plan>>

\* combine() of live partial states into a state terminate() has run on.
CombineAfter(i, others) ==
    /\ status[i] = "terminated"
    /\ aggs' = [aggs EXCEPT ![i] = combine(@, [k \in DOMAIN others |-> aggs[others[k]]])]
    /\ rows' = [j \in Inst |->
                   IF j = i THEN BagUnionSeq(rows[i], [k \in DOMAIN others |-> rows[others[k]]])
                   ELSE IF \E k \in DOMAIN others : others[k] = j THEN EmptyBag
                   ELSE rows[j]]
    /\ status' = [j \in Inst |-> IF \E k \in DOMAIN others : others[k] = j
                                 THEN "consumed" ELSE status[j]]
    /\ UNCHANGED <<col, result, plan>>

\* terminate() once more on a state it has run on.
TerminateAfter(i, mode) ==
    /\ status[i] = "terminated"
    /\ result' = terminate(aggs[i], col.unit, SumType(col), OutType(col), mode)
    /\ UNCHANGED <<col, status, aggs, rows, plan>>

\* The blocks the first two partitions have aggregated when the host leaves the order.
AnyOrderBlocks == {<< >>, <<NullRow>>, <<Row(8)>>, <<Row(-9)>>}

\* Two partitions were initialised and each has aggregated one block or none.
InitAnyOrder ==
    /\ col \in Columns
    /\ status = [i \in Inst |-> IF i <= 2 THEN "active" ELSE "unused"]
    /\ \E b \in [{1, 2} -> AnyOrderBlocks] :
          /\ aggs = [i \in Inst |->
                        IF i <= 2 /\ b[i] # << >>
                        THEN aggregate(initAggregate, col.p, col.s, b[i]).st
                        ELSE initAggregate]
          /\ rows = [i \in Inst |-> IF i <= 2 THEN BagAddSeq(EmptyBag, b[i]) ELSE EmptyBag]
    /\ result = NoResult
    /\ plan = NoPlan

NextAnyOrder ==
    \/ \E i \in Inst : \E mode \in Roundings : TerminateEarly(i, mode)
    \/ \E i \in Inst : InitAggregateAfter(i)
    \/ \E i \in Inst : \E batch \in Batches(col, MaxRows - RowsFed) : AggregateAfter(i, batch)
    \/ \E i \in Inst :
          \E others \in Blocks({j \in Inst \ {i} : status[j] = "active"}) : CombineAfter(i, others)
    \/ \E i \in Inst : \E mode \in Roundings : TerminateAfter(i, mode)

SpecAnyOrder == InitAnyOrder /\ [][NextAnyOrder]_vars

-----------------------------------------------------------------------------
(* aggregate() and terminate() as functions of the state they are handed    *)
(* and of the declared type of the block: every declared shape, legal or    *)
(* not, against a state that has recorded no shape or has recorded one      *)
(* under another declared type.                                              *)

DeclaredShapes ==
    {[p |-> p, s |-> s, unit |-> 0] : p \in {-1, 0, 1, 75, 1024, 1025}, s \in {-1, 0, 2}}

\* Declared types under which the state may have recorded its shape before.
PriorShapes == {[p |-> 75, s |-> 2], [p |-> 1024, s |-> 0]}

InitShape ==
    /\ col \in DeclaredShapes
    /\ status = [i \in Inst |-> IF i = 1 THEN "active" ELSE "unused"]
    /\ \/ /\ aggs = [i \in Inst |-> initAggregate]
          /\ rows = [i \in Inst |-> EmptyBag]
       \/ \E c \in PriorShapes : \E b \in {<<NullRow>>, <<Row(8)>>} :
             /\ aggs = [i \in Inst |->
                           IF i = 1 THEN aggregate(initAggregate, c.p, c.s, b).st
                           ELSE initAggregate]
             /\ rows = [i \in Inst |-> IF i = 1 THEN BagAddSeq(EmptyBag, b) ELSE EmptyBag]
    /\ result = NoResult
    /\ plan = NoPlan

NextShape ==
    \/ \E batch \in Batches(col, MaxRows - RowsFed) : Aggregate(1, batch)
    \/ \E mode \in Roundings : Terminate(1, mode)

SpecShape == InitShape /\ [][NextShape]_vars

-----------------------------------------------------------------------------
(* terminate() on states of long-running groups.  The state machine above  *)
(* feeds at most MaxRows rows; here the fully combined state is taken as   *)
(* it stands after any number of rows: count up to the largest integer of  *)
(* the model checker, precisions on both sides of every place where        *)
(* p_in + digits(count) crosses MAX_NUMERIC_PRECISION.                      *)

TermPrecisions == {1, 75} \cup (1000..MAX_NUMERIC_PRECISION)

TermColumns ==
    {c \in [p : TermPrecisions, s : {0, 2, 1023}, unit : {0, 74, 999, 1019}] :
        c.s <= c.p /\ c.unit < c.p}

TermCounts == {1, 9, 10, 99, 100, 99999, 100000, 999999999, 1000000000, 2147483647}

\* The states a group of column c can have been combined into: nothing
\* aggregated at all, only nulls aggregated, or cnt non-null rows whose total
\* has mantissa sum (|sum * 10^unit| <= cnt * (10^p - 1) for each of them).
TermStates(c) ==
    {initAggregate, [sum |-> 0, cnt |-> 0, p_in |-> c.p, s_in |-> c.s]}
    \cup {[sum |-> m, cnt |-> n, p_in |-> c.p, s_in |-> c.s] :
             m \in {-7, 0, 7}, n \in TermCounts}

InitTerm ==
    /\ col \in TermColumns
    /\ status = [i \in Inst |-> IF i = 1 THEN "active" ELSE "unused"]
    /\ \E a \in TermStates(col) : aggs = [i \in Inst |-> IF i = 1 THEN a ELSE initAggregate]
    /\ rows = [i \in Inst |-> EmptyBag]
    /\ result = NoResult
    /\ plan = NoPlan

NextTerm == \E mode \in Roundings : Terminate(1, mode)

SpecTerm == InitTerm /\ [][NextTerm]_vars

-----------------------------------------------------------------------------
(* terminate() on counts of the full 64-bit range.  The integers of the    *)
(* model checker have 32 bits, so here the 64-bit word of cnt is written    *)
(* in base 10^4 as five limbs, most significant first; its value is         *)
(* w[1]*10^16 + w[2]*10^12 + w[3]*10^8 + w[4]*10^4 + w[5].  The sum of the   *)
(* states is zero (the values of the group cancel), so that the quotient    *)
(* needs no wide division.                                                   *)

WideZero == <<0, 0, 0, 0, 0>>

\* The largest vint, 2^63 - 1 = 9223372036854775807, and the largest 64-bit
\* word, 2^64 - 1 = 18446744073709551615.
INT64_MAX == <<922, 3372, 368, 5477, 5807>>
UINT64_MAX == <<1844, 6744, 737, 955, 1615>>

\* a < b, limb by limb from the most significant.
RECURSIVE WideLess(_, _)
WideLess(a, b) ==
    IF a = << >> THEN FALSE
    ELSE IF Head(a) # Head(b) THEN Head(a) < Head(b)
    ELSE WideLess(Tail(a), Tail(b))

WideLeq(a, b) == a = b \/ WideLess(a, b)

\* tmp /= 10 on the limbs: long division with the remainder carried down.
RECURSIVE WideDiv10From(_, _)
WideDiv10From(w, carry) ==
    IF w = << >> THEN << >>
    ELSE LET cur == carry * Pow10(4) + Head(w)
         IN  <<cur \div 10>> \o WideDiv10From(Tail(w), cur % 10)

WideDiv10(w) == WideDiv10From(w, 0)

\* Fault variant: the loop runs while (tmp > 9) and misses the leading digit.
RECURSIVE DigitLoopWide_missesLeadingDigit(_, _)
DigitLoopWide_missesLeadingDigit(tmp, digitsN) ==
    IF WideLess(<<0, 0, 0, 0, 9>>, tmp)
    THEN DigitLoopWide_missesLeadingDigit(WideDiv10(tmp), digitsN + 1)
    ELSE digitsN

\* Fault variant: the digit count comes out one too many.
RECURSIVE DigitLoopWide_countsOneMore(_, _)
DigitLoopWide_countsOneMore(tmp, digitsN) ==
    IF tmp # WideZero THEN DigitLoopWide_countsOneMore(WideDiv10(tmp), digitsN + 1)
    ELSE digitsN + 1

\* while (tmp > 0) { tmp /= 10; digitsN++; } on a non-negative 64-bit tmp.
RECURSIVE DigitLoopWide(_, _)
DigitLoopWide(tmp, digitsN) ==
    IF tmp # WideZero THEN DigitLoopWide(WideDiv10(tmp), digitsN + 1) ELSE digitsN

\* The word read as a vint (two's complement) is negative.
IsNegative64(w) == WideLess(INT64_MAX, w)

\* 10^d and 10^d - 1 (d in 0..19) as words.
WidePow10(d) == [k \in 1..5 |-> IF 5 - k = d \div 4 THEN Pow10(d % 4) ELSE 0]
WideNines(d) ==
    [k \in 1..5 |-> IF 4 * (6 - k) <= d THEN Pow10(4) - 1
                    ELSE IF 4 * (5 - k) < d THEN Pow10(d - 4 * (5 - k)) - 1
                    ELSE 0]

\* out.div(&sum, &cntNumeric) for sum = 0: cntNumeric holds rowCount at the
\* shape of the sum, which takes digits(rowCount) + s_sum digits; 0 / cnt = 0.
divWide(cnt, sumType, outType) ==
    IF DigitLoopWide(cnt, 0) + sumType.s > sumType.p
    THEN Failure("OutOfRange", "count", 0, 0)
    ELSE Outcome("numeric", "", 0, 0, TRUE, 0, 0)

\* terminate() on a state whose cnt is the 64-bit word a.cnt.
terminateWide(a, sumType, outType) ==
    IF a.cnt = WideZero THEN Outcome("null", "", 0, 0, FALSE, 0, 0)
    ELSE IF a.s_in < 0 THEN Failure("CorruptState", "scale", 0, 0)
    ELSE IF a.p_in <= 0 \/ a.p_in > MAX_NUMERIC_PRECISION
         THEN Failure("CorruptState", "precision", 0, 0)
    ELSE IF IsNegative64(a.cnt) THEN Failure("CorruptState", "count", 0, 0)
    ELSE LET digitsN == DigitLoopWide(a.cnt, 0)
             p_needed == a.p_in + digitsN
         IN  IF digitsN = 0 THEN Failure("CorruptState", "digits", 0, 0)
             ELSE IF exceedsMaximum(p_needed)
                  THEN Failure("PrecisionExceeded", "", p_needed, digitsN)
             ELSE divWide(a.cnt, sumType, outType)

\* The words of the model: 0, every power of ten and its predecessor, 12345,
\* the largest vint, its successor (the smallest negative vint) and the
\* largest word.
WideCounts ==
    {WidePow10(d) : d \in 0..19} \cup {WideNines(d) : d \in 0..19}
    \cup {<<0, 0, 0, 1, 2345>>}
    \cup {INT64_MAX, <<922, 3372, 368, 5477, 5808>>, UINT64_MAX}

WideColumns == {c \in TermColumns : c.unit = 0}

InitWide ==
    /\ col \in WideColumns
    /\ status = [i \in Inst |-> IF i = 1 THEN "active" ELSE "unused"]
    /\ \E w \in WideCounts :
          aggs = [i \in Inst |->
                    IF i = 1 THEN [sum |-> 0, cnt |-> w, p_in |-> col.p, s_in |-> col.s]
                    ELSE initAggregate]
    /\ rows = [i \in Inst |-> EmptyBag]
    /\ result = NoResult
    /\ plan = NoPlan

TerminateWide(i) ==
    /\ result = NoResult
    /\ status[i] = "active"
    /\ result' = terminateWide(aggs[i], SumType(col), OutType(col))
    /\ status' = [status EXCEPT ![i] = "terminated"]
    /\ UNCHANGED <<col, aggs, rows, plan>>

NextWide == TerminateWide(1)

SpecWide == InitWide /\ [][NextWide]_vars

-----------------------------------------------------------------------------
(* The factory's planning calls, on every declared input type. *)

PlanInputs ==
    {[p |-> p, s |-> s, unit |-> 0] :
        p \in 0..(MAX_NUMERIC_PRECISION + 1), s \in {-1, 0, 1, 2, 1000, 1019, 1020, 1023, 1024, 1025}}

InitPlan ==
    /\ col \in PlanInputs
    /\ status = [i \in Inst |-> "unused"]
    /\ aggs = [i \in Inst |-> initAggregate]
    /\ rows = [i \in Inst |-> EmptyBag]
    /\ result = NoResult
    /\ plan = NoPlan

Planned(call, r) == [call |-> call, ok |-> r.ok, p |-> r.p, s |-> r.s]

GetIntermediateTypes ==
    /\ plan = NoPlan
    /\ plan' = Planned("getIntermediateTypes", getIntermediateTypes(col.p, col.s))
    /\ UNCHANGED <<col, status, aggs, rows, result>>

GetReturnType ==
    /\ plan = NoPlan
    /\ plan' = Planned("getReturnType", getReturnType(col.p, col.s))
    /\ UNCHANGED <<col, status, aggs, rows, result>>

NextPlan == GetIntermediateTypes \/ GetReturnType

SpecPlan == InitPlan /\ [][NextPlan]_vars

-----------------------------------------------------------------------------
(* Properties *)

\* The number of base-10 digits of n >= 1, by its definition:
\* 10^(d-1) <= n < 10^d, i.e. n with d-1 digits cut off is a single digit.
decimalDigitCount(n) == CHOOSE d \in 1..10 : (n \div Pow10(d - 1)) \in 1..9

Terminated(i) == status[i] = "terminated"

\* The state terminate() ran on has cnt >= 1 and a recorded p_in in (0, P_MAX].
CountedAndShaped(i) ==
    /\ aggs[i].cnt >= 1
    /\ aggs[i].p_in > 0 /\ aggs[i].p_in <= 1024

\* C1. Overflow guarantee: on a state with count n >= 1 and recorded input
\* precision p in (0, 1024] such that p + decimalDigitCount(n) > 1024,
\* terminate() raises PrecisionExceeded (reporting p_needed = p + digits and the
\* digit count); it returns neither a number nor null.
C1_OverflowGuarantee ==
    \A i \in Inst :
        (/\ Terminated(i)
         /\ CountedAndShaped(i)
         /\ aggs[i].p_in + decimalDigitCount(aggs[i].cnt) > 1024)
        => /\ result.kind = "PrecisionExceeded"
           /\ result.digitsN = decimalDigitCount(aggs[i].cnt)
           /\ result.p_needed = aggs[i].p_in + result.digitsN

\* C1 happens: a ten-digit count pushes a precision well below 1024 over the ceiling.
C1_Witness ==
    \E i \in Inst :
        /\ Terminated(i)
        /\ aggs[i].p_in = 1015 /\ aggs[i].cnt = 1000000000
        /\ result.kind = "PrecisionExceeded" /\ result.p_needed = 1025

C3_NullSemantics ==
    \A i \in Inst :
        Terminated(i) => (result.kind = "null" <=> aggs[i].cnt = 0)

\* C3 happens: a state that recorded a shape but counted no row ends in null.
C3_Witness ==
    \E i \in Inst :
        /\ Terminated(i)
        /\ aggs[i].cnt = 0 /\ aggs[i].p_in = 1024
        /\ result.kind = "null"

Live(i) == status[i] \in {"active", "terminated"}

\* terminate() on state a of the group's column, under rounding rule mode.
Finalize(a, mode) == terminate(a, col.unit, SumType(col), OutType(col), mode)

\* combine() of one other state into a.
Merge(a, b) == combine(a, <<b>>)

\* C4. Merge is commutative and associative: for the partial states a, b, c of
\* three partitions of the group, merging (a,b) then c, a with the merge of
\* (b,c), and (b,a) then c give the same state, hence the same outcome of
\* terminate(), null and errors included.
C4_MergeAssocComm ==
    (\A i \in Inst : status[i] = "active") =>
        \A x, y, z \in Inst :
            (x # y /\ y # z /\ x # z) =>
                LET a == aggs[x]
                    b == aggs[y]
                    c == aggs[z]
                    left == Merge(Merge(a, b), c)
                    right == Merge(a, Merge(b, c))
                    swapped == Merge(Merge(b, a), c)
                IN  /\ left = right /\ left = swapped
                    /\ \A mode \in Roundings :
                          /\ Finalize(left, mode) = Finalize(right, mode)
                          /\ Finalize(left, mode) = Finalize(swapped, mode)

\* C4 happens: three live partial states, two of which hold counted rows.
C4_Witness ==
    /\ \A i \in Inst : status[i] = "active"
    /\ \E x, y, z \in Inst : aggs[x].cnt >= 1 /\ aggs[y].cnt >= 1 /\ x # y /\ aggs[z].p_in = 0

\* The rows of bag b in one block (some order).
RECURSIVE BagToSeq(_)
BagToSeq(b) ==
    IF \A r \in AllRows : b[r] = 0 THEN << >>
    ELSE LET r == CHOOSE x \in AllRows : b[x] > 0
         IN  <<r>> \o BagToSeq([b EXCEPT ![r] = @ - 1])

\* The state of a single instance that is initialised and aggregates all the
\* rows of bag b (none: aggregate() is not called).
SingleInstance(b) ==
    IF BagSize(b) = 0 THEN initAggregate
    ELSE aggregate(initAggregate, col.p, col.s, BagToSeq(b)).st

\* C5. Partition independence: however the rows were split over instances,
\* batched, and however the instances were combined, a state holds exactly
\* what a single instance aggregating all of its rows would hold (sum, cnt,
\* p_in, s_in), and terminate() answers as it would on that single instance.
C5_PartitionIndependence ==
    \A i \in Inst :
        Live(i) =>
            /\ aggs[i] = SingleInstance(rows[i])
            /\ Terminated(i) =>
                  \E mode \in Roundings : result = Finalize(SingleInstance(rows[i]), mode)

\* C5 happens: rows of two partitions were combined and the group terminated.
C5_Witness ==
    \E i, j \in Inst :
        /\ Terminated(i) /\ status[j] = "consumed"
        /\ aggs[j].cnt >= 1 /\ aggs[i].cnt > aggs[j].cnt
        /\ result.kind = "numeric"

\* Decimal digits of a count, none for 0.
digits10(n) == IF n = 0 THEN 0 ELSE decimalDigitCount(n)

\* C6. State invariant: cnt is the number of non-null rows the state absorbed
\* (so cnt = 0 exactly when it absorbed none), and as long as
\* p_sum >= p_in + digits10(cnt), sum is their exact total and a value of the
\* sum's type NUMERIC(p_sum, s_sum).
C6_StateInvariant ==
    \A i \in Inst :
        Live(i) =>
            /\ aggs[i].cnt = BagNonNull(rows[i])
            /\ aggs[i].cnt = 0 <=> (\A r \in AllRows \ {NullRow} : rows[i][r] = 0)
            /\ SumType(col).p >= col.p + digits10(aggs[i].cnt) =>
                  /\ aggs[i].sum = BagTotal(rows[i])
                  /\ Fits(aggs[i].sum, col.unit, SumType(col).p)

\* C6 happens: a state that absorbed two values through combine, with room in p_sum.
C6_Witness ==
    \E i, j \in Inst :
        /\ Live(i) /\ status[j] = "consumed"
        /\ aggs[i].cnt = 2 /\ aggs[i].sum = 17
        /\ SumType(col).p >= col.p + digits10(aggs[i].cnt)

\* C7. Null exclusion: a call of aggregate() adds to cnt the number of non-null
\* rows of its block and to sum their total, so null rows add nothing; a group
\* that saw only nulls terminates with null; and the outcome of terminate()
\* is the one the group would have had with one more null row.
C7_NullExclusion ==
    [][\A i \in Inst :
          /\ (status' = status /\ rows'[i] # rows[i]) =>
                /\ aggs'[i].cnt = aggs[i].cnt + (BagNonNull(rows'[i]) - BagNonNull(rows[i]))
                /\ aggs'[i].sum = aggs[i].sum + (BagTotal(rows'[i]) - BagTotal(rows[i]))
          /\ (status[i] = "active" /\ Terminated(i)') =>
                /\ BagNonNull(rows[i]) = 0 => result'.kind = "null"
                /\ \A mode \in Roundings :
                      Finalize(aggs[i], mode) = result' =>
                         Finalize(aggregate(aggs[i], col.p, col.s, <<NullRow>>).st, mode) = result'
      ]_vars

\* C7 happens: a group with a null row and a counted row terminated with a number.
C7_Witness ==
    \E i \in Inst :
        /\ Terminated(i)
        /\ rows[i][NullRow] >= 1 /\ aggs[i].cnt = 1
        /\ result.kind = "numeric"

\* The rows of bag b are n >= 1 consecutive values base, base+1, ..., base+n-1,
\* each once and none null.  Values are m * 10^unit, so several values are
\* consecutive only at unit = 0.
ValuesOf(b) == {r.val : r \in {x \in AllRows \ {NullRow} : b[x] > 0}}
MinOf(S) == CHOOSE m \in S : \A k \in S : m <= k
MaxOf(S) == CHOOSE m \in S : \A k \in S : m >= k

Consecutive(b) ==
    /\ b[NullRow] = 0
    /\ \A r \in AllRows : b[r] <= 1
    /\ ValuesOf(b) # {}
    /\ \/ Cardinality(ValuesOf(b)) = 1
       \/ /\ col.unit = 0
          /\ MaxOf(ValuesOf(b)) - MinOf(ValuesOf(b)) + 1 = Cardinality(ValuesOf(b))

\* q1 * 10^e1 = q2 * 10^e2.
SameNumber(q1, e1, q2, e2) ==
    IF e1 >= e2 THEN q1 * Pow10(e1 - e2) = q2 ELSE q1 = q2 * Pow10(e2 - e1)

\* C8. Known mean: for n >= 1 consecutive values base .. base+n-1 of a scale-0
\* column, in any partitioning, with p_in + decimalDigitCount(n) <= 1024,
\* terminate() returns exactly base + (n-1)/2.  (The result has scale s_out:
\* unscaled it is (base + (n-1)/2) * 10^s_out.)
C8_KnownMean ==
    \A i \in Inst :
        (/\ Terminated(i)
         /\ col.s = 0
         /\ Consecutive(rows[i])
         /\ col.p + decimalDigitCount(BagSize(rows[i])) <= 1024)
        => LET n == BagSize(rows[i])
               base == MinOf(ValuesOf(rows[i]))
           IN  /\ result.kind = "numeric"
               /\ IF n = 1
                  THEN SameNumber(result.q, result.e, base, col.unit + OutType(col).s)
                  ELSE /\ result.e = 0
                       /\ 2 * result.q = (2 * base + n - 1) * Pow10(OutType(col).s)

\* The power of ten by which div() scales the sum's mantissa, as far as the
\* model multiplies it out.
ShiftOut == col.unit + OutType(col).s - SumType(col).s
ShiftDone == IF ShiftOut > MaxShift THEN MaxShift ELSE ShiftOut

\* C9. Exact quotient: whenever cnt >= 1 and p_in + decimalDigitCount(cnt) <=
\* 1024, terminate() returns the quotient of the total by cnt at the output
\* shape; when the exact mean has at most s_out fractional digits the result
\* is the exact mean of the absorbed values, unrounded, and otherwise it is
\* within one unit of the last place of it.
C9_ExactQuotient ==
    \A i \in Inst :
        (/\ Terminated(i)
         /\ CountedAndShaped(i)
         /\ aggs[i].p_in + decimalDigitCount(aggs[i].cnt) <= 1024)
        => LET num == BagTotal(rows[i]) * Pow10(ShiftDone)
               n == aggs[i].cnt
           IN  /\ result.kind = "numeric"
               /\ result.e = ShiftOut - ShiftDone
               /\ num % n = 0 => (result.exact /\ result.q * n = num)
               /\ (num % n # 0 /\ result.e = 0) => Abs(result.q * n - num) < n

\* C10. Planner, intermediate shape: for every valid input shape (p_in in
\* [1, 1024], s_in in [0, p_in]) getIntermediateTypes answers
\* p_sum = min(1024, p_in + 19) and s_sum = clamp(s_in, 0, p_sum), so
\* 1 <= p_sum <= 1024 and 0 <= s_sum <= p_sum.
C10_IntermediateShape ==
    (/\ plan.call = "getIntermediateTypes"
     /\ col.p >= 1 /\ col.p <= 1024
     /\ col.s >= 0 /\ col.s <= col.p)
    => LET min == IF col.p + 19 < 1024 THEN col.p + 19 ELSE 1024
           clamp == IF col.s < 0 THEN 0 ELSE IF col.s > min THEN min ELSE col.s
       IN  /\ plan.ok
           /\ plan.p = min
           /\ plan.s = clamp
           /\ 1 <= plan.p /\ plan.p <= 1024
           /\ 0 <= plan.s /\ plan.s <= plan.p

\* C10 happens: the cap applies (p_in + 19 > 1024) on a column whose scale is its precision.
C10_Witness ==
    /\ plan.call = "getIntermediateTypes"
    /\ col.p = 1020 /\ col.s = 1020
    /\ plan.ok /\ plan.p = 1024 /\ plan.s = 1020

\* A declared input shape the planner's contract admits.
ValidInputShape(c) == c.p >= 1 /\ c.p <= 1024 /\ c.s >= 0 /\ c.s <= c.p

Min(a, b) == IF a < b THEN a ELSE b

\* C11. Planner, output shape: for every valid input shape getReturnType
\* answers p_out = min(1024, p_in + 5) and s_out = min(p_out, s_in + 5).  (The
\* answer is a function of (p_in, s_in) alone: the factory has no field and
\* the two calls read nothing but the declared type.)
C11_OutputShape ==
    (plan.call = "getReturnType" /\ ValidInputShape(col))
    => /\ plan.ok
       /\ plan.p = Min(1024, col.p + 5)
       /\ plan.s = Min(plan.p, col.s + 5)

\* C11 happens: p_out is capped and the scale is cut down to it.
C11_Witness ==
    /\ plan.call = "getReturnType"
    /\ col.p = 1023 /\ col.s = 1023
    /\ plan.ok /\ plan.p = 1024 /\ plan.s = 1024

\* C12. Planner monotonicity: for a valid (p_in, s_in) with p_in + 1 <= 1024,
\* planning (p_in + 1, s_in) gives a p_sum and a p_out no smaller than planning
\* (p_in, s_in); and s_out <= p_out for every valid input shape.
C12_Monotonicity ==
    ValidInputShape(col) =>
        /\ plan.call = "getReturnType" => plan.s <= plan.p
        /\ col.p + 1 <= 1024 =>
              /\ plan.call = "getIntermediateTypes" =>
                    /\ getIntermediateTypes(col.p + 1, col.s).ok
                    /\ getIntermediateTypes(col.p + 1, col.s).p >= plan.p
              /\ plan.call = "getReturnType" =>
                    /\ getReturnType(col.p + 1, col.s).ok
                    /\ getReturnType(col.p + 1, col.s).p >= plan.p

\* C12 happens: the step from the last uncapped p_out to the first capped one.
C12_Witness ==
    /\ plan.call = "getReturnType"
    /\ col.p = 1019 /\ col.s = 2
    /\ plan.p = 1024 /\ getReturnType(col.p + 1, col.s).p = 1024

\* C13. Planner precondition: planning a shape with p_in outside [1, 1024] or
\* s_in outside [0, p_in] (a negative scale or a scale above a legal
\* precision included) fails with InvalidInputShape and produces no shape.
C13_PlannerPrecondition ==
    (plan.call # "none" /\ ~ValidInputShape(col)) => ~plan.ok

\* C15. Exact or error: the output shape has room for the integer part of the
\* mean, p_out - s_out >= p_in - s_in, for every valid (p_in, s_in), also
\* where p_out is capped at 1024.
C15_ExactOrError ==
    (plan.call = "getReturnType" /\ ValidInputShape(col))
    => /\ plan.ok
       /\ plan.p - plan.s >= col.p - col.s

\* C14 as claimed. Phase order: a state that has left Fresh (a shape is
\* recorded) does not come back to it, and Finalized is terminal: a call of
\* initAggregate, aggregate, combine or terminate on a state terminate() has
\* run on is rejected, not performed, so the state and the result stay as
\* they are (or the call ends in a usage error).
C14_PhaseOrder ==
    [][\A i \in Inst :
          /\ aggs[i].p_in # 0 => aggs'[i].p_in # 0
          /\ Terminated(i) =>
                /\ Terminated(i)'
                /\ aggs'[i] = aggs[i]
                /\ result' = result \/ result'.kind = "UsageError"
      ]_vars

\* C14 as amended. The class keeps no phase.  terminate() leaves the state as
\* it found it, only initAggregate brings a state back to Fresh, and a call
\* that hands rows or partial states to a state is performed with its usual
\* effect whether or not terminate() has run on that state: the count grows
\* by the non-null rows handed over, the sum by their total, and a call of
\* aggregate leaves the shape recorded.
C14_CallsAfterTerminate ==
    [][\A i \in Inst :
          /\ (status[i] = "active" /\ Terminated(i)') => aggs'[i] = aggs[i]
          /\ (aggs[i].p_in # 0 /\ aggs'[i].p_in = 0) => aggs'[i] = initAggregate
          /\ (Terminated(i) /\ BagSize(rows'[i]) > BagSize(rows[i])) =>
                /\ Terminated(i)'
                /\ aggs'[i].cnt = aggs[i].cnt + (BagNonNull(rows'[i]) - BagNonNull(rows[i]))
                /\ aggs'[i].sum = aggs[i].sum + (BagTotal(rows'[i]) - BagTotal(rows[i]))
                /\ status' = status => aggs'[i].p_in = col.p
                /\ result' = result
      ]_vars

\* C14 happens: terminate() answered 8 for a partial state, and afterwards the
\* other partial state was combined into it.
C14_Witness ==
    \E i, j \in Inst :
        /\ Terminated(i) /\ status[j] = "consumed"
        /\ result.kind = "numeric" /\ result.exact /\ result.q = 8 * Pow10(ShiftDone)
        /\ aggs[i].cnt = 2 /\ aggs[i].sum = -1

\* The number of base-10 digits of the word w >= 1, by its definition:
\* 10^(d-1) <= w < 10^d (no 64-bit word reaches 10^20).
decimalDigitCountWide(w) ==
    CHOOSE d \in 1..20 :
        /\ WideLeq(WidePow10(d - 1), w)
        /\ d = 20 \/ WideLess(w, WidePow10(d))

\* The word is a count the row counter (a vint) can hold, and at least 1.
IsRowCount(w) == w # WideZero /\ ~IsNegative64(w)

\* C16. Planner invariant behind the certificate: for a valid p_in and a
\* count n >= 1 of the row counter with p_needed = p_in +
\* decimalDigitCount(n) <= 1024, the planned p_sum is min(1024, p_in + 19)
\* and p_sum >= p_needed; terminate() goes on to the division; and the sum was
\* representable: n values below 10^p_in total less than n * 10^p_in, which is
\* at most 10^p_sum because n <= 10^(p_sum - p_in).
C16_PlannerInvariant ==
    \A i \in Inst :
        (/\ Terminated(i)
         /\ aggs[i].p_in >= 1 /\ aggs[i].p_in <= 1024
         /\ IsRowCount(aggs[i].cnt)
         /\ aggs[i].p_in + decimalDigitCountWide(aggs[i].cnt) <= 1024)
        => LET p_sum == SumType(col).p
               p_needed == aggs[i].p_in + decimalDigitCountWide(aggs[i].cnt)
           IN  /\ p_sum = Min(1024, aggs[i].p_in + 19)
               /\ p_sum >= p_needed
               /\ WideLeq(aggs[i].cnt, WidePow10(p_sum - aggs[i].p_in))
               /\ result.kind \in {"numeric", "OutOfRange"}

\* C16 happens: the largest count of the row counter, 19 digits, on a
\* precision that leaves exactly 19 digits below the ceiling.
C16_Witness ==
    \E i \in Inst :
        /\ Terminated(i)
        /\ aggs[i].p_in = 1005 /\ aggs[i].cnt = INT64_MAX
        /\ SumType(col).p = 1024
        /\ result.kind = "numeric"

\* C17 as claimed. Guard digits cover the counter: decimalDigitCount(n) <= 19
\* for every value n >= 1 of a 64-bit unsigned row counter, that is for
\* every 64-bit word read as unsigned.
C17_GuardDigitsUnsigned ==
    \A i \in Inst :
        (Terminated(i) /\ aggs[i].cnt # WideZero)
        => decimalDigitCountWide(aggs[i].cnt) <= 19

\* C17 as amended. The row counter is a vint, a signed 64-bit integer, and
\* for every count n >= 1 it can hold (n <= 2^63 - 1) decimalDigitCount(n) is
\* at most extra_digits_for_rows = 19; so is the digit count terminate()
\* reports when it raises PrecisionExceeded.
C17_GuardDigits ==
    \A i \in Inst :
        (Terminated(i) /\ IsRowCount(aggs[i].cnt))
        => /\ decimalDigitCountWide(aggs[i].cnt) <= extra_digits_for_rows
           /\ result.kind = "PrecisionExceeded" =>
                 /\ result.digitsN = decimalDigitCountWide(aggs[i].cnt)
                 /\ result.digitsN <= extra_digits_for_rows

\* C17 happens: the largest vint has 19 digits, and terminate() counts them.
C17_Witness ==
    \E i \in Inst :
        /\ Terminated(i)
        /\ aggs[i].cnt = INT64_MAX /\ aggs[i].p_in = 1024
        /\ result.kind = "PrecisionExceeded" /\ result.digitsN = 19

\* C18. Shape immutability: once a state has recorded its input shape
\* (p_in # 0), no later call of aggregate or combine on it changes p_in or
\* s_in, as long as the state lives.
C18_ShapeImmutable ==
    [][\A i \in Inst :
          aggs[i].p_in # 0 =>
              /\ aggs'[i].p_in = aggs[i].p_in
              /\ aggs'[i].s_in = aggs[i].s_in
      ]_vars

\* C18 happens: a state whose shape is recorded took a partial state that
\* held rows, and rows of its own.
C18_Witness ==
    \E i, j \in Inst :
        /\ status[i] = "active" /\ status[j] = "consumed"
        /\ aggs[j].p_in # 0 /\ BagSize(rows[i]) = 2 /\ aggs[j].cnt = 1 /\ aggs[i].cnt = 1
        /\ aggs[i].p_in = col.p /\ aggs[i].s_in = col.s

\* Totals over the partial states of a set of instances.
RECURSIVE SumOfSums(_)
SumOfSums(S) ==
    IF S = {} THEN 0
    ELSE LET k == CHOOSE x \in S : TRUE IN aggs[k].sum + SumOfSums(S \ {k})

RECURSIVE SumOfCounts(_)
SumOfCounts(S) ==
    IF S = {} THEN 0
    ELSE LET k == CHOOSE x \in S : TRUE IN aggs[k].cnt + SumOfCounts(S \ {k})

\* C19. Merge postcondition: a call of combine on a state with a block of
\* other states leaves in it the sum of all their sums, the sum of all their
\* counts and the maximum of the recorded precisions and of the recorded
\* scales; it does not fail, whether or not the recorded shapes are the same,
\* and the other states are left as they were.
C19_MergePostcondition ==
    [][LET others == {j \in Inst : status[j] = "active" /\ status'[j] = "consumed"}
       IN  others # {} =>
             \E i \in Inst \ others :
                 /\ status[i] = "active" /\ status'[i] = "active"
                 /\ aggs'[i].sum = aggs[i].sum + SumOfSums(others)
                 /\ aggs'[i].cnt = aggs[i].cnt + SumOfCounts(others)
                 /\ aggs'[i].p_in = MaxOf({aggs[k].p_in : k \in others \cup {i}})
                 /\ aggs'[i].s_in = MaxOf({aggs[k].s_in : k \in others \cup {i}})
                 /\ \A k \in Inst \ {i} : aggs'[k] = aggs[k]
                 /\ result' = result
      ]_vars

\* C19 happens: a state took one state that had recorded no shape and one
\* that held a counted row, and holds a counted row of its own.
C19_Witness ==
    \E i, j, k \in Inst :
        /\ status[i] = "active" /\ status[j] = "consumed" /\ status[k] = "consumed"
        /\ aggs[j].p_in = 0 /\ aggs[k].cnt = 1
        /\ aggs[i].cnt = 2 /\ aggs[i].p_in = col.p /\ aggs[i].s_in = col.s
        /\ result = NoResult

\* C20. CorruptState is unreachable: in every state reached from
\* initAggregate by aggregate calls on a valid declared shape and by combine,
\* cnt >= 0, and cnt >= 1 implies p_in in (0, 1024] and s_in >= 0; so
\* terminate() never fails on one of its internal checks.
C20_NoCorruptState ==
    \A i \in Inst :
        /\ aggs[i].cnt >= 0
        /\ aggs[i].cnt >= 1 =>
              /\ aggs[i].p_in > 0 /\ aggs[i].p_in <= 1024
              /\ aggs[i].s_in >= 0
        /\ Terminated(i) => result.kind # "CorruptState"

\* C20 happens: terminate() ran its checks on a combined state that counts
\* rows and stopped at the precision ceiling, not at an internal check.
C20_Witness ==
    \E i, j \in Inst :
        /\ Terminated(i) /\ status[j] = "consumed"
        /\ aggs[j].cnt >= 1 /\ aggs[i].cnt = 2 /\ aggs[i].p_in = 1024
        /\ result.kind = "PrecisionExceeded"

\* C21. First-row shape capture: a call of aggregate on a state whose p_in is
\* unset validates the declared shape (p_in in (0, 1024]) and records
\* (p_in, s_in), also when every row of the block is null; when the declared
\* p_in is out of range the call fails with InvalidInputShape and leaves sum,
\* cnt, p_in and s_in as they were.  When p_in is already set the declared
\* shape is neither validated (no failure, the rows are processed) nor recorded.
C21_FirstRowShapeCapture ==
    [][\A i \in Inst :
          (status[i] = "active" /\ status'[i] = "active") =>
              IF aggs[i].p_in = 0
              THEN IF col.p > 0 /\ col.p <= 1024
                   THEN /\ aggs'[i].p_in = col.p /\ aggs'[i].s_in = col.s
                        /\ result' = NoResult
                   ELSE /\ result'.kind = "InvalidInputShape"
                        /\ aggs'[i] = aggs[i]
              ELSE /\ aggs'[i].p_in = aggs[i].p_in /\ aggs'[i].s_in = aggs[i].s_in
                   /\ result' = NoResult
                   /\ aggs'[i].cnt = aggs[i].cnt + (BagNonNull(rows'[i]) - BagNonNull(rows[i]))
      ]_vars

\* C21 happens: the first block held nothing but nulls and the shape is recorded.
C21_Witness ==
    \E i \in Inst :
        /\ status[i] = "active"
        /\ rows[i][NullRow] = BagSize(rows[i]) /\ BagSize(rows[i]) = 2
        /\ aggs[i].cnt = 0 /\ aggs[i].p_in = 75 /\ aggs[i].s_in = 2 /\ col.p = 75

\* C22. terminate() is read-only: on every path (null, a number,
\* PrecisionExceeded, a failed internal check, a failed division) it leaves
\* sum, cnt, p_in and s_in of the state as they were.
C22_TerminateReadOnly ==
    [][\A i \in Inst :
          (status[i] = "active" /\ Terminated(i)') =>
              /\ aggs'[i] = aggs[i]
              /\ result'.kind \in {"null", "numeric", "PrecisionExceeded", "CorruptState", "OutOfRange"}
      ]_vars

\* C22 happens: terminate() failed on an internal check (a negative recorded
\* scale) and the counted row is still in the state.
C22_Witness ==
    \E i \in Inst :
        /\ Terminated(i)
        /\ result.kind = "CorruptState" /\ result.why = "scale"
        /\ aggs[i].cnt = 1 /\ aggs[i].sum = 8 /\ aggs[i].s_in = -1

\* The partial states a combine step has folded into another one.
Folded == {j \in Inst : status[j] = "active" /\ status'[j] = "consumed"}

\* C23. The empty state is the identity of combine: initAggregate yields
\* sum = 0, cnt = 0, p_in = s_in = 0 and raises nothing; folding states that
\* were initialised and never aggregated into a state s leaves s as it was
\* (and so the outcome of terminate() on it), and folding s into such a state
\* yields a state equal to s in sum, cnt, p_in and s_in.
C23_EmptyIsIdentity ==
    [][\A i \in Inst :
          /\ (status[i] = "unused" /\ status'[i] = "active") =>
                 /\ aggs'[i] = [sum |-> 0, cnt |-> 0, p_in |-> 0, s_in |-> 0]
                 /\ result' = NoResult
          /\ (status[i] = "active" /\ status'[i] = "active" /\ Folded # {}) =>
                 /\ (\A j \in Folded : rows[j] = EmptyBag) =>
                        /\ aggs'[i] = aggs[i]
                        /\ \A mode \in Roundings :
                               Finalize(aggs'[i], mode) = Finalize(aggs[i], mode)
                 /\ (rows[i] = EmptyBag /\ rows'[i] # EmptyBag /\ Cardinality(Folded) = 1) =>
                        \A j \in Folded : aggs'[i] = aggs[j]
      ]_vars

\* C23 happens: a partition without rows was folded into one with two values,
\* and the group's result is a number.
C23_Witness ==
    \E i \in Inst : \E j \in Inst \ {i} :
        /\ Terminated(i) /\ result.kind = "numeric"
        /\ status[j] = "consumed" /\ aggs[j] = [sum |-> 0, cnt |-> 0, p_in |-> 0, s_in |-> 0]
        /\ aggs[i].cnt = 2 /\ BagSize(rows[i]) = 2

\* C24. The count fits the sum's shape: whenever terminate() passes its test
\* (cnt >= 1, s_in <= p_in, p_in + decimalDigitCount(cnt) <= 1024), cnt has at
\* most p_sum - s_sum digits, so it is held exactly by a NUMERIC(p_sum, s_sum)
\* and building cntNumeric does not fail.
C24_CountFitsSumShape ==
    \A i \in Inst :
        (/\ Terminated(i) /\ IsRowCount(aggs[i].cnt)
         /\ aggs[i].p_in > 0 /\ aggs[i].s_in >= 0 /\ aggs[i].s_in <= aggs[i].p_in
         /\ aggs[i].p_in + decimalDigitCountWide(aggs[i].cnt) <= 1024)
        => /\ decimalDigitCountWide(aggs[i].cnt) <= SumType(col).p - SumType(col).s
           /\ SumType(col).s = aggs[i].s_in
           /\ ~(result.kind = "OutOfRange" /\ result.why = "count")

\* C24 happens: a column NUMERIC(1023, 1023) leaves the sum one integer digit,
\* and a count of 9 takes exactly that digit.
C24_Witness ==
    \E i \in Inst :
        /\ Terminated(i)
        /\ aggs[i].p_in = 1023 /\ aggs[i].s_in = 1023 /\ aggs[i].cnt = WideNines(1)
        /\ SumType(col).p - SumType(col).s = 1
        /\ result.kind = "numeric"

\* C25. Instance isolation: aggregate and initAggregate on one instance leave
\* sum, cnt, p_in and s_in of every other instance as they were, so however
\* the calls on distinct instances interleave, an instance holds what it would
\* hold had its rows been aggregated alone; terminate() runs when no other
\* partial state of the group is left to fold in, and no aggregate or combine
\* changes the state it ran on afterwards.
C25_InstanceIsolation ==
    [][\A i \in Inst :
          /\ (status' = status /\ rows'[i] # rows[i]) =>
                 /\ \A j \in Inst \ {i} : aggs'[j] = aggs[j]
                 /\ aggs'[i] = SingleInstance(rows'[i])
          /\ (status[i] = "unused" /\ status'[i] = "active") =>
                 \A j \in Inst \ {i} : aggs'[j] = aggs[j]
          /\ (status[i] = "active" /\ Terminated(i)') =>
                 \A j \in Inst \ {i} : status[j] # "active"
          /\ Terminated(i) => aggs'[i] = aggs[i]
      ]_vars

\* C25 happens: two partitions each hold their own value, aggregated in turn,
\* while a third is initialised and has seen no row.
C25_Witness ==
    \E i \in Inst : \E j \in Inst \ {i} : \E k \in Inst \ {i, j} :
        /\ status[i] = "active" /\ status[j] = "active" /\ status[k] = "active"
        /\ aggs[i].cnt = 1 /\ aggs[j].cnt = 1 /\ aggs[i].sum # aggs[j].sum
        /\ aggs[k] = [sum |-> 0, cnt |-> 0, p_in |-> 0, s_in |-> 0]

\* C26. Digit count: for every count n >= 1 the digit loop of terminate()
\* ends with digitsN >= 1, the number of base-10 digits of n
\* (10^(digitsN-1) <= n < 10^digitsN; 1 has 1, 10 has 2, 12345 has 5), and
\* the p_needed that terminate() reports is p_in + digitsN.
C26_DigitCount ==
    \A i \in Inst :
        (/\ Terminated(i) /\ IsRowCount(aggs[i].cnt)
         /\ aggs[i].p_in > 0 /\ aggs[i].p_in <= 1024 /\ aggs[i].s_in >= 0)
        => LET n == aggs[i].cnt
               d == DigitLoopWide(n, 0)
           IN  /\ d >= 1
               /\ WideLeq(WidePow10(d - 1), n)
               /\ d <= 19 /\ WideLess(n, WidePow10(d))
               /\ n = <<0, 0, 0, 0, 1>> => d = 1
               /\ n = <<0, 0, 0, 0, 10>> => d = 2
               /\ n = <<0, 0, 0, 1, 2345>> => d = 5
               /\ result.kind # "CorruptState"
               /\ aggs[i].p_in + d > 1024 =>
                      /\ result.kind = "PrecisionExceeded"
                      /\ result.digitsN = d
                      /\ result.p_needed = aggs[i].p_in + result.digitsN

\* C26 happens: 12345 rows of a NUMERIC(1020, 0): terminate() reports 5 digits
\* and p_needed = 1025.
C26_Witness ==
    \E i \in Inst :
        /\ Terminated(i)
        /\ aggs[i].cnt = <<0, 0, 0, 1, 2345>> /\ aggs[i].p_in = 1020
        /\ result.kind = "PrecisionExceeded"
        /\ result.digitsN = 5 /\ result.p_needed = 1025

====
